---------------------------- MODULE Spec2Model ----------------------------
(***************************************************************************)
(* A model of the packaging scripts of brightness-restore:                 *)
(*   - .scripts/format-json.js, the JSON canonicalizer (SpecFormat);       *)
(*   - package.sh, the build driver with its inline archive validator      *)
(*     (SpecPackage);                                                      *)
(*   - the published-version fetcher (SpecVersion).                        *)
(* Texts are sequences of one-character strings, so that rendering and     *)
(* parsing are computed character by character.                            *)
(***************************************************************************)
EXTENDS Integers, Sequences, FiniteSets, TLC

VARIABLES
    \* format-json.js
    files,      \* main: the paths walk() returned, in walk order (1..n)
    orig,       \* the contents of each file when the first run started
    disk,       \* the current contents of each file
    idx,        \* main: the index of the next file of the for-of loop
    fmtPc,      \* "run" | "done" (main returned) | "threw" (uncaught error)
    pass,       \* how many times the script has been started
    wasRead,    \* per file: readFileSync calls in the current run
    written,    \* per file: writeFileSync calls in the current run
    formatted,  \* per file: the `formatted` the current run computed, as pieces
    prevOk,     \* the files the previous run formatted without a fault
    nodeExit,   \* exit status of the node process (-1 while running)
    \* package.sh
    extDir,     \* the extension/ directory of the project
    shPc,       \* the next command of package.sh
    shExit,     \* exit status of package.sh (-1 while running)
    pkgFile,    \* the package at $PROJECT_DIR/$PACKAGE_NAME
    tempDir,    \* whether $TEMP_DIR exists
    listing,    \* the entries of the archive zip wrote
    schema,     \* .build-schema.json
    stderr,     \* the lines the validator wrote to the error stream
    stdout,     \* the lines written to the output stream
    valExit,    \* exit status of the validator (-1 before it ran)
    \* version fetcher
    verPc,      \* position of the version script
    pkgJson,    \* package.json: whether it can be read, and its major version
    githubVersion,
    readme,     \* .github/README.md
    reqUrl,     \* the request in flight: "page" | "info" | "none"
    redirects,  \* redirects followed so far
    published,  \* updateReadme's hasPublished: "unset" | "NA" | "version"
    gnomeBadge, \* the text of the GNOME badge updateReadme wrote (<<>>: none)
    lookup,     \* how the remote lookup went
    verExit     \* exit status of the version script (-1 while running)

fmtVars == <<files, orig, disk, idx, fmtPc, pass, wasRead, written, formatted,
            prevOk, nodeExit>>
shVars  == <<extDir, shPc, shExit, pkgFile, tempDir, listing, schema, stderr, stdout, valExit>>
verVars == <<verPc, pkgJson, githubVersion, readme, reqUrl, redirects, published,
             gnomeBadge, lookup, verExit>>
vars    == <<fmtVars, shVars, verVars>>

-----------------------------------------------------------------------------
(* Characters *)

QUOTE == "\""
BS    == "\\"
NL    == "\n"
SP    == " "
BSP   == "<backspace>"   \* U+0008, which has no escape in a TLA+ string
EOF   == ""

Digits == <<"0", "1", "2", "3", "4", "5", "6", "7", "8", "9">>

IsDigit(c) == \E d \in 1..10 : Digits[d] = c
DigitVal(c) == (CHOOSE d \in 1..10 : Digits[d] = c) - 1

\* The UTF-16 code unit of a character (the order Array.prototype.sort uses).
CharCode(c) ==
    CASE c = BSP -> 8    [] c = NL -> 10   [] c = SP -> 32   [] c = QUOTE -> 34
      [] c = "," -> 44   [] c = "/" -> 47  [] IsDigit(c) -> 48 + DigitVal(c)
      [] c = ":" -> 58   [] c = "[" -> 91  [] c = BS -> 92   [] c = "]" -> 93
      [] c = "_" -> 95   [] c = "a" -> 97  [] c = "b" -> 98  [] c = "e" -> 101
      [] c = "f" -> 102  [] c = "l" -> 108 [] c = "n" -> 110 [] c = "o" -> 111
      [] c = "p" -> 112  [] c = "r" -> 114 [] c = "s" -> 115 [] c = "t" -> 116
      [] c = "u" -> 117  [] c = "{" -> 123 [] c = "}" -> 125

At(t, i) == IF i >= 1 /\ i <= Len(t) THEN t[i] ELSE EOF

RECURSIVE StrLess(_, _)
\* x < y on strings: code unit by code unit, a proper prefix first.
StrLess(x, y) ==
    IF y = <<>> THEN FALSE
    ELSE IF x = <<>> THEN TRUE
    ELSE IF x[1] = y[1] THEN StrLess(Tail(x), Tail(y))
    ELSE CharCode(x[1]) < CharCode(y[1])

-----------------------------------------------------------------------------
(* JSON values.  Every value is a record of one shape: t the type, n the  *)
(* number, s the string, c the children ([k, v]: a property, or an array  *)
(* element with k = <<>>) in own-property order.                          *)

Null    == [t |-> "null",  n |-> 0, s |-> <<>>, c |-> <<>>]
True    == [t |-> "true",  n |-> 0, s |-> <<>>, c |-> <<>>]
False   == [t |-> "false", n |-> 0, s |-> <<>>, c |-> <<>>]
Num(n)  == [t |-> "num",   n |-> n, s |-> <<>>, c |-> <<>>]
Str(s)  == [t |-> "str",   n |-> 0, s |-> s,    c |-> <<>>]
Arr(es) == [t |-> "arr",   n |-> 0, s |-> <<>>,
            c |-> [i \in 1..Len(es) |-> [k |-> <<>>, v |-> es[i]]]]
EmptyObj == [t |-> "obj",  n |-> 0, s |-> <<>>, c |-> <<>>]

IsArray(value)  == value.t = "arr"
\* value && typeof value === 'object', once arrays are out of the way
IsObject(value) == value.t = "obj"

\* Object.keys(value): the own property names, in property order
ObjectKeys(value) == [i \in 1..Len(value.c) |-> value.c[i].k]
HasKey(value, key) == \E i \in 1..Len(value.c) : value.c[i].k = key
\* value[key] for an own property
Get(value, key) == value.c[CHOOSE i \in 1..Len(value.c) : value.c[i].k = key].v

RECURSIVE NumOf(_)
NumOf(ds) == IF ds = <<>> THEN 0
             ELSE 10 * NumOf(SubSeq(ds, 1, Len(ds) - 1)) + DigitVal(ds[Len(ds)])

\* An array index: a canonical numeric string. Such properties are listed
\* first, in ascending numeric order; the others follow in creation order.
IsIndexKey(key) ==
    /\ key # <<>>
    /\ \A i \in 1..Len(key) : IsDigit(key[i])
    /\ (key[1] = "0" => Len(key) = 1)

RECURSIVE InsertAt(_, _, _)
InsertAt(c, p, i) ==
    IF i > Len(c) THEN Append(c, p)
    ELSE IF IsIndexKey(p.k) /\ (~IsIndexKey(c[i].k) \/ NumOf(p.k) < NumOf(c[i].k))
         THEN SubSeq(c, 1, i - 1) \o <<p>> \o SubSeq(c, i, Len(c))
         ELSE InsertAt(c, p, i + 1)

\* CreateDataProperty (what JSON.parse does for every member, "__proto__"
\* included): a repeated name keeps its place and takes the later value.
DefineProp(obj, key, value) ==
    IF HasKey(obj, key)
    THEN [obj EXCEPT !.c = [i \in 1..Len(obj.c) |->
              IF obj.c[i].k = key THEN [k |-> key, v |-> value] ELSE obj.c[i]]]
    ELSE [obj EXCEPT !.c = InsertAt(obj.c, [k |-> key, v |-> value], 1)]

ProtoKey == <<"_", "_", "p", "r", "o", "t", "o", "_", "_">>

\* obj[key] = value on a plain object: "__proto__" reaches the accessor of
\* Object.prototype, which sets or ignores the prototype and creates no
\* own property.
Assign(obj, key, value) ==
    IF key = ProtoKey THEN obj ELSE DefineProp(obj, key, value)

-----------------------------------------------------------------------------
(* JSON.parse and JSON.stringify, on the characters the model uses.        *)
(* Numbers are unsigned decimal integers; \u escapes, fractions and        *)
(* exponents occur in no text of the model.                                *)

Fail == [ok |-> FALSE, v |-> Null, pos |-> 0]
Ok(v, pos) == [ok |-> TRUE, v |-> v, pos |-> pos]

RECURSIVE SkipWs(_, _)
SkipWs(t, i) == IF At(t, i) \in {SP, NL} THEN SkipWs(t, i + 1) ELSE i

\* The character an escape \c stands for (EOF: no such escape here).
Unescape(c) ==
    CASE c = QUOTE -> QUOTE [] c = BS -> BS [] c = "/" -> "/"
      [] c = "n" -> NL [] c = "b" -> BSP [] OTHER -> EOF

RECURSIVE ParseChars(_, _, _)
\* The characters of a string, from position i (after the opening quote).
ParseChars(t, i, acc) ==
    LET ch == At(t, i) IN
    IF ch = EOF \/ ch = NL \/ ch = BSP THEN Fail \* unterminated, or a raw control character
    ELSE IF ch = QUOTE THEN [ok |-> TRUE, v |-> Str(acc), pos |-> i + 1]
    ELSE IF ch = BS
         THEN IF Unescape(At(t, i + 1)) = EOF THEN Fail
              ELSE ParseChars(t, i + 2, Append(acc, Unescape(At(t, i + 1))))
    ELSE ParseChars(t, i + 1, Append(acc, ch))

RECURSIVE ParseDigits(_, _, _)
ParseDigits(t, i, acc) ==
    IF IsDigit(At(t, i)) THEN ParseDigits(t, i + 1, Append(acc, At(t, i)))
    ELSE IF Len(acc) > 1 /\ acc[1] = "0" THEN Fail \* no leading zero
    ELSE Ok(Num(NumOf(acc)), i)

ParseLiteral(t, i, word, value) ==
    IF i + Len(word) - 1 <= Len(t) /\ SubSeq(t, i, i + Len(word) - 1) = word
    THEN Ok(value, i + Len(word)) ELSE Fail

RECURSIVE ParseValue(_, _)
RECURSIVE ParseMembers(_, _, _)
RECURSIVE ParseElements(_, _, _)

\* A value starting at position i (white space already skipped).
ParseValue(t, i) ==
    LET ch == At(t, i) IN
    IF ch = "{"
    THEN LET j == SkipWs(t, i + 1) IN
         IF At(t, j) = "}" THEN Ok(EmptyObj, j + 1) ELSE ParseMembers(t, j, EmptyObj)
    ELSE IF ch = "["
    THEN LET j == SkipWs(t, i + 1) IN
         IF At(t, j) = "]" THEN Ok(Arr(<<>>), j + 1) ELSE ParseElements(t, j, <<>>)
    ELSE IF ch = QUOTE THEN ParseChars(t, i + 1, <<>>)
    ELSE IF IsDigit(ch) THEN ParseDigits(t, i, <<>>)
    ELSE IF ch = "n" THEN ParseLiteral(t, i, <<"n", "u", "l", "l">>, Null)
    ELSE IF ch = "t" THEN ParseLiteral(t, i, <<"t", "r", "u", "e">>, True)
    ELSE IF ch = "f" THEN ParseLiteral(t, i, <<"f", "a", "l", "s", "e">>, False)
    ELSE Fail

\* The members of an object from position i, added to obj.
ParseMembers(t, i, obj) ==
    IF At(t, i) # QUOTE THEN Fail
    ELSE LET key == ParseChars(t, i + 1, <<>>) IN
         IF ~key.ok THEN Fail
         ELSE LET j == SkipWs(t, key.pos) IN
              IF At(t, j) # ":" THEN Fail
              ELSE LET val == ParseValue(t, SkipWs(t, j + 1)) IN
                   IF ~val.ok THEN Fail
                   ELSE LET j2   == SkipWs(t, val.pos)
                            obj2 == DefineProp(obj, key.v.s, val.v)
                        IN  IF At(t, j2) = "," THEN ParseMembers(t, SkipWs(t, j2 + 1), obj2)
                            ELSE IF At(t, j2) = "}" THEN Ok(obj2, j2 + 1)
                            ELSE Fail

\* The elements of an array from position i, appended to es.
ParseElements(t, i, es) ==
    LET val == ParseValue(t, i) IN
    IF ~val.ok THEN Fail
    ELSE LET j   == SkipWs(t, val.pos)
             es2 == Append(es, val.v)
         IN  IF At(t, j) = "," THEN ParseElements(t, SkipWs(t, j + 1), es2)
             ELSE IF At(t, j) = "]" THEN Ok(Arr(es2), j + 1)
             ELSE Fail

\* JSON.parse(raw): ok = FALSE stands for the SyntaxError it throws.
JSONparse(raw) ==
    LET val == ParseValue(raw, SkipWs(raw, 1)) IN
    IF val.ok /\ SkipWs(raw, val.pos) = Len(raw) + 1 THEN val ELSE Fail

RECURSIVE ToDigits(_)
ToDigits(n) == IF n < 10 THEN <<Digits[n + 1]>>
               ELSE Append(ToDigits(n \div 10), Digits[(n % 10) + 1])

RECURSIVE Escape(_)
Escape(s) ==
    IF s = <<>> THEN <<>>
    ELSE (CASE s[1] = QUOTE -> <<BS, QUOTE>>
            [] s[1] = BS    -> <<BS, BS>>
            [] s[1] = NL    -> <<BS, "n">>
            [] s[1] = BSP   -> <<BS, "b">>
            [] OTHER        -> <<s[1]>>) \o Escape(Tail(s))

\* JSON.stringify(value) of a value that is neither an array nor an object
JSONstringify(value) ==
    CASE value.t = "null"  -> <<"n", "u", "l", "l">>
      [] value.t = "true"  -> <<"t", "r", "u", "e">>
      [] value.t = "false" -> <<"f", "a", "l", "s", "e">>
      [] value.t = "num"   -> ToDigits(value.n)
      [] value.t = "str"   -> <<QUOTE>> \o Escape(value.s) \o <<QUOTE>>

-----------------------------------------------------------------------------
(* format-json.js: sortKeysDeep, formatInline, formatValue                 *)

RECURSIVE InsertSorted(_, _)
InsertSorted(sorted, key) ==
    IF sorted = <<>> THEN <<key>>
    ELSE IF StrLess(key, sorted[1]) THEN <<key>> \o sorted
    ELSE <<sorted[1]>> \o InsertSorted(Tail(sorted), key)

RECURSIVE SortFrom(_, _)
SortFrom(keys, sorted) ==
    IF keys = <<>> THEN sorted ELSE SortFrom(Tail(keys), InsertSorted(sorted, keys[1]))

\* sort gone wrong: no sorting at all; a descending sort
sortNone(keys) == keys
sortDesc(keys) == LET up == SortFrom(keys, <<>>)
                  IN  [i \in 1..Len(up) |-> up[Len(up) + 1 - i]]

\* keys.sort(): ascending by code units (the keys of an object are distinct)
sort(keys) == SortFrom(keys, <<>>)

RECURSIVE sortKeysDeep(_)
RECURSIVE SortedInto(_, _, _)

\* for (const key of keys) sorted[key] = sortKeysDeep(value[key])
SortedInto(sorted, value, keys) ==
    IF keys = <<>> THEN sorted
    ELSE SortedInto(Assign(sorted, keys[1], sortKeysDeep(Get(value, keys[1]))),
                    value, Tail(keys))

sortKeysDeep(value) ==
    IF IsArray(value)
    THEN [value EXCEPT !.c = [i \in 1..Len(value.c) |->
                                 [k |-> <<>>, v |-> sortKeysDeep(value.c[i].v)]]]
    ELSE IF ~IsObject(value) THEN value
    ELSE SortedInto(EmptyObj, value, sort(ObjectKeys(value)))

(* The text a formatter returns is kept as the sequence of the pieces its  *)
(* template literals put together; TextOf joins them into the characters.  *)
Piece(kind, s) == [kind |-> kind, s |-> s]
OpenObj  == Piece("openObj",  <<"{">>)
CloseObj == Piece("closeObj", <<"}">>)
OpenArr  == Piece("openArr",  <<"[">>)
CloseArr == Piece("closeArr", <<"]">>)
Sep(s)   == Piece("sep", s)
\* `"${key}"`: the key between two quotes, as it is
KeyPiece(key) == Piece("key", <<QUOTE>> \o key \o <<QUOTE>>)

RECURSIVE TextOf(_)
TextOf(pieces) == IF pieces = <<>> THEN <<>> ELSE pieces[1].s \o TextOf(Tail(pieces))

RECURSIVE Join(_, _)
\* parts.join(sep)
Join(parts, sep) ==
    IF parts = <<>> THEN <<>>
    ELSE IF Len(parts) = 1 THEN parts[1]
    ELSE parts[1] \o <<Sep(sep)>> \o Join(Tail(parts), sep)

RECURSIVE Repeat(_, _)
\* s.repeat(n)
Repeat(s, n) == IF n = 0 THEN <<>> ELSE s \o Repeat(s, n - 1)

RECURSIVE formatInline(_)
formatInline(value) ==
    IF IsArray(value)
    THEN <<OpenArr>>
         \o Join([i \in 1..Len(value.c) |-> formatInline(value.c[i].v)], <<",", SP>>)
         \o <<CloseArr>>
    ELSE IF IsObject(value)
    THEN LET keys  == sort(ObjectKeys(value))
             pairs == [i \in 1..Len(keys) |->
                          <<KeyPiece(keys[i]), Sep(<<":", SP>>)>>
                          \o formatInline(Get(value, keys[i]))]
         IN  <<OpenObj>> \o Join(pairs, <<",", SP>>) \o <<CloseObj>>
    ELSE <<Piece("scalar", JSONstringify(value))>>

RECURSIVE formatValue(_, _)
formatValue(value, level) ==
    IF IsArray(value) THEN formatInline(value)
    ELSE IF ~IsObject(value) THEN <<Piece("scalar", JSONstringify(value))>>
    ELSE LET indent     == Repeat(<<SP, SP>>, level)
             nextIndent == Repeat(<<SP, SP>>, level + 1)
             keys       == sort(ObjectKeys(value))
             lines      == [i \in 1..Len(keys) |->
                               <<Sep(nextIndent), KeyPiece(keys[i]), Sep(<<":", SP>>)>>
                               \o formatValue(Get(value, keys[i]), level + 1)]
         IN  IF Len(keys) = 0 THEN <<OpenObj, CloseObj>>
             ELSE <<OpenObj, Sep(<<NL>>)>> \o Join(lines, <<",", NL>>)
                  \o <<Sep(<<NL>>), Sep(indent), CloseObj>>

\* `${formatValue(sorted, 0)}\n` of formatJsonFile, as pieces
FormattedPieces(parsed) == formatValue(sortKeysDeep(parsed), 0) \o <<Sep(<<NL>>)>>

-----------------------------------------------------------------------------
(* The inputs of the canonicalizer: JSON values, written out as JSON texts *)
(* in two key orders and two spacings, and texts that are not JSON.        *)

Obj(pairs) == [t |-> "obj", n |-> 0, s |-> <<>>,
               c |-> [i \in 1..Len(pairs) |-> [k |-> pairs[i][1], v |-> pairs[i][2]]]]

Keys == {<<"a">>, <<"b">>, <<"2">>, <<"1", "0">>, <<QUOTE>>, <<BS, "n">>, <<NL>>, ProtoKey}
Scalars == {Null, False, Num(10), Str(<<QUOTE, NL>>)}
PairObj(k1, k2) == Obj(<<<<k1, Num(1)>>, <<k2, Null>>>>)
FlatObjects ==
    {EmptyObj} \cup {Obj(<<<<k, Num(1)>>>>) : k \in Keys}
    \cup {PairObj(kk[1], kk[2]) : kk \in {p \in Keys \X Keys : StrLess(p[1], p[2])}}
\* The objects put inside arrays and objects
InnerObjects ==
    {Obj(<<<<k, Num(1)>>>>) : k \in Keys}
    \cup {PairObj(<<"a">>, <<"b">>), PairObj(<<"1", "0">>, <<"2">>), PairObj(ProtoKey, <<"a">>)}
FlatArrays ==
    {Arr(<<>>)} \cup {Arr(<<x>>) : x \in {Null, Num(1)}}
    \cup {Arr(<<x, y>>) : x \in {Null, Num(1)}, y \in {Null, Num(1)}}
ObjectArrays ==
    {Arr(<<o>>) : o \in InnerObjects} \cup {Arr(<<o, Null>>) : o \in InnerObjects}
    \cup {Arr(<<Num(1), Arr(<<o, Arr(<<Null, Num(1)>>)>>)>>) : o \in InnerObjects}
Nested ==
    {Obj(<<<<<<"b">>, x>>, <<<<"a">>, Num(1)>>>>) : x \in FlatArrays \cup ObjectArrays}
    \cup {Obj(<<<<<<"a">>, o>>>>) : o \in InnerObjects}
Values == Scalars \cup FlatObjects \cup FlatArrays \cup ObjectArrays \cup Nested

Reverse(q) == [i \in 1..Len(q) |-> q[Len(q) + 1 - i]]

RECURSIVE Concat(_)
Concat(parts) == IF parts = <<>> THEN <<>> ELSE parts[1] \o Concat(Tail(parts))

RECURSIVE Write(_, _, _)
\* A JSON text of value: rev writes the members of every object in reverse
\* order, wide puts white space around the punctuation.
Write(value, rev, wide) ==
    LET ws == IF wide THEN <<SP>> ELSE <<>>
        nl == IF wide THEN <<NL, SP>> ELSE <<>>
        c  == IF rev /\ IsObject(value) THEN Reverse(value.c) ELSE value.c
        member(i) == (IF i > 1 THEN <<",">> \o nl ELSE <<>>)
                     \o (IF IsObject(value)
                         THEN <<QUOTE>> \o Escape(c[i].k) \o <<QUOTE>> \o ws \o <<":">> \o ws
                         ELSE <<>>)
                     \o Write(c[i].v, rev, wide)
        inner == Concat([i \in 1..Len(c) |-> member(i)])
    IN  IF IsArray(value) THEN <<"[">> \o ws \o inner \o ws \o <<"]">>
        ELSE IF IsObject(value) THEN <<"{">> \o nl \o inner \o nl \o <<"}">>
        ELSE JSONstringify(value)

\* Texts JSON.parse rejects
Malformed == {<<"{">>, <<"[", "1", ",", "]">>, <<"{", QUOTE, "a", QUOTE, SP, "1", "}">>}
\* A text with a repeated member name
Repeated == <<"{", QUOTE, "a", QUOTE, ":", "2", ",", QUOTE, "b", QUOTE, ":", "n", "u", "l", "l",
              ",", QUOTE, "a", QUOTE, ":", "1", "}">>

Styles == BOOLEAN \X BOOLEAN
\* What the first file of a project holds, for a value
Firsts(value) == {Write(value, st[1], st[2]) : st \in Styles} \cup Malformed \cup {Repeated}
\* What the files after it hold: the value written another way, a text
\* with a repeated name, a text that is not JSON
Others(value) == {Write(value, TRUE, TRUE), Repeated, <<"[", "1", ",", "]">>}

RECURSIVE StructEq(_, _)
\* Structural equality: the same type and scalar, the same elements in the
\* same order, the same member names with structurally equal values.
StructEq(v, w) ==
    /\ v.t = w.t /\ v.n = w.n /\ v.s = w.s
    /\ Len(v.c) = Len(w.c)
    /\ IF IsObject(v)
       THEN \A i \in 1..Len(v.c) : /\ HasKey(w, v.c[i].k)
                                   /\ StructEq(v.c[i].v, Get(w, v.c[i].k))
       ELSE \A i \in 1..Len(v.c) : StructEq(v.c[i].v, w.c[i].v)

-----------------------------------------------------------------------------
(* STATE MACHINE: format-json.js *)

MaxFiles  == 2
MaxPasses == 2

shIdle ==
    /\ extDir = [js |-> {}, meta |-> FALSE, lib |-> {}, xml |-> FALSE]
    /\ shPc = "idle" /\ shExit = -1 /\ pkgFile = "absent" /\ tempDir = FALSE
    /\ listing = <<>>
    /\ schema = [exists |-> FALSE, allowed_files |-> <<>>, allowed_directories |-> <<>>]
    /\ stderr = <<>> /\ stdout = <<>> /\ valExit = -1
verIdle ==
    /\ verPc = "idle" /\ pkgJson = [readable |-> FALSE, major |-> 0]
    /\ githubVersion = 0 /\ readme = "unreadable"
    /\ reqUrl = "none" /\ redirects = 0 /\ published = "unset" /\ gnomeBadge = <<>>
    /\ lookup = "pending" /\ verExit = -1
fmtIdle ==
    /\ files = <<>> /\ orig = <<>> /\ disk = <<>> /\ idx = 0 /\ fmtPc = "idle" /\ pass = 0
    /\ wasRead = <<>> /\ written = <<>> /\ formatted = <<>> /\ prevOk = {} /\ nodeExit = -1

\* main has called walk: files are the .json files of the project, in walk
\* order; the first holds a text of Firsts, the others a text of Others.
FormatInit ==
    /\ \E value \in Values, n \in 1..MaxFiles :
         \E first \in Firsts(value), rest \in [2..n -> Others(value)] :
            /\ files = [i \in 1..n |-> i]
            /\ disk = [i \in 1..n |-> IF i = 1 THEN first ELSE rest[i]]
    /\ orig = disk
    /\ idx = 1 /\ fmtPc = "run" /\ pass = 1
    /\ wasRead = [i \in DOMAIN disk |-> 0]
    /\ written = [i \in DOMAIN disk |-> 0]
    /\ formatted = [i \in DOMAIN disk |-> <<>>]
    /\ prevOk = {}
    /\ nodeExit = -1
    /\ shIdle /\ verIdle

\* formatJsonFile gone wrong: a parse fault is caught and the loop goes on
formatJsonFileCatch ==
    /\ fmtPc = "run" /\ idx <= Len(files)
    /\ LET filePath == files[idx]
           raw      == disk[filePath]
           parsed   == JSONparse(raw)
           pieces   == FormattedPieces(parsed.v)
       IN  /\ wasRead' = [wasRead EXCEPT ![filePath] = @ + 1]
           /\ IF ~parsed.ok
              THEN UNCHANGED <<disk, written, formatted>>
              ELSE /\ formatted' = [formatted EXCEPT ![filePath] = pieces]
                   /\ IF raw # TextOf(pieces)
                      THEN /\ disk' = [disk EXCEPT ![filePath] = TextOf(pieces)]
                           /\ written' = [written EXCEPT ![filePath] = @ + 1]
                      ELSE UNCHANGED <<disk, written>>
           /\ idx' = idx + 1
           /\ UNCHANGED <<fmtPc, nodeExit>>
    /\ UNCHANGED <<files, orig, pass, prevOk, shVars, verVars>>

\* One turn of main's loop: formatJsonFile(files[idx]). JSON.parse throwing
\* ends the process, since nothing catches it.
formatJsonFile ==
    /\ fmtPc = "run" /\ idx <= Len(files)
    /\ LET filePath == files[idx]
           raw      == disk[filePath]
           parsed   == JSONparse(raw)
           pieces   == FormattedPieces(parsed.v)
       IN  /\ wasRead' = [wasRead EXCEPT ![filePath] = @ + 1]
           /\ IF ~parsed.ok
              THEN /\ fmtPc' = "threw" /\ nodeExit' = 1
                   /\ UNCHANGED <<disk, written, formatted, idx>>
              ELSE /\ formatted' = [formatted EXCEPT ![filePath] = pieces]
                   /\ IF raw # TextOf(pieces)
                      THEN /\ disk' = [disk EXCEPT ![filePath] = TextOf(pieces)]
                           /\ written' = [written EXCEPT ![filePath] = @ + 1]
                      ELSE UNCHANGED <<disk, written>>
                   /\ idx' = idx + 1
                   /\ UNCHANGED <<fmtPc, nodeExit>>
    /\ UNCHANGED <<files, orig, pass, prevOk, shVars, verVars>>

\* main returns after the last file and the process exits with status 0
main ==
    /\ fmtPc = "run" /\ idx > Len(files)
    /\ fmtPc' = "done" /\ nodeExit' = 0
    /\ UNCHANGED <<files, orig, disk, idx, pass, wasRead, written, formatted, prevOk,
                   shVars, verVars>>

\* The script is started again on the same project
RunAgain ==
    /\ fmtPc \in {"done", "threw"} /\ pass < MaxPasses
    /\ pass' = pass + 1 /\ idx' = 1 /\ fmtPc' = "run" /\ nodeExit' = -1
    /\ prevOk' = {files[i] : i \in 1..(idx - 1)}
    /\ wasRead' = [i \in DOMAIN disk |-> 0]
    /\ written' = [i \in DOMAIN disk |-> 0]
    /\ formatted' = [i \in DOMAIN disk |-> <<>>]
    /\ UNCHANGED <<files, orig, disk, shVars, verVars>>

FormatNext == formatJsonFile \/ main \/ RunAgain

SpecFormat == FormatInit /\ [][FormatNext]_vars

-----------------------------------------------------------------------------
(* Properties of the canonicalizer *)

Processed(i) == pass = 1 /\ i < idx
ParsedOrig(i) == JSONparse(orig[files[i]])

\* C1 (order-invariance): two files of the first run whose original texts
\* parse to structurally equal values hold the same bytes once formatted.
C1_OrderInvariance ==
    \A i, j \in 1..Len(files) :
        (/\ Processed(i) /\ Processed(j)
         /\ StructEq(ParsedOrig(i).v, ParsedOrig(j).v))
        => /\ disk[files[i]] = disk[files[j]]
           /\ disk[files[i]] = TextOf(formatted[files[i]])

C1_Witness ==
    LET value == Obj(<<<<<<"b">>, Arr(<<Obj(<<<<<<"1", "0">>, Num(1)>>, <<<<"2">>, Null>>>>)>>)>>,
                       <<<<"a">>, Num(1)>>>>)
    IN  /\ Len(files) = 2 /\ Processed(1) /\ Processed(2)
        /\ orig[1] = Write(value, FALSE, FALSE)
        /\ orig[2] = Write(value, TRUE, TRUE)
        /\ orig[1] # orig[2]
        /\ StructEq(ParsedOrig(1).v, ParsedOrig(2).v)

\* C2 (idempotence), as claimed: a run that follows a run which formatted a
\* file finds that file valid and equal to its canonical text, and does not
\* write it.
C2_Idempotence ==
    pass >= 2 =>
        \A i \in 1..Len(files) :
            files[i] \in prevOk =>
                /\ written[files[i]] = 0
                /\ ~(fmtPc = "threw" /\ idx = i)

RECURSIVE InlineScan(_, _)
\* No piece between an array's brackets (the brackets included), at any
\* depth of arrays, holds a line break.
InlineScan(pieces, depth) ==
    IF pieces = <<>> THEN TRUE
    ELSE LET p  == pieces[1]
             d  == IF p.kind = "openArr" THEN depth + 1 ELSE depth
             d2 == IF p.kind = "closeArr" THEN d - 1 ELSE d
         IN  /\ (d > 0 => \A k \in 1..Len(p.s) : p.s[k] # NL)
             /\ InlineScan(Tail(pieces), d2)

\* C5 (inline law), as claimed: the text of every array of a canonical text
\* holds no line break.
C5_InlineLaw ==
    \A i \in 1..Len(files) : InlineScan(formatted[files[i]], 0)

\* C8 (array preservation), as claimed: the canonical text parses to a value
\* structurally equal to the parsed input.
C8_Preservation ==
    \A i \in 1..Len(files) :
        Processed(i) =>
            LET back == JSONparse(disk[files[i]])
            IN  back.ok /\ StructEq(back.v, ParsedOrig(i).v)

RECURSIVE KeyScan(_, _)
\* The member names of every object of the text ascend strictly; open holds,
\* for each object the scan is inside of, the last name seen in it.
KeyScan(pieces, open) ==
    IF pieces = <<>> THEN TRUE
    ELSE LET p == pieces[1] IN
         IF p.kind = "openObj"
         THEN KeyScan(Tail(pieces), Append(open, [has |-> FALSE, key |-> <<>>]))
         ELSE IF p.kind = "closeObj"
         THEN KeyScan(Tail(pieces), SubSeq(open, 1, Len(open) - 1))
         ELSE IF p.kind = "key"
         THEN LET key == SubSeq(p.s, 2, Len(p.s) - 1)
                  top == open[Len(open)]
              IN  /\ (top.has => StrLess(top.key, key))
                  /\ KeyScan(Tail(pieces),
                             [open EXCEPT ![Len(open)] = [has |-> TRUE, key |-> key]])
         ELSE KeyScan(Tail(pieces), open)

\* C9 (recursive key sorting): in the canonical text a run leaves in a file,
\* the member names of every object, at every depth and inside arrays too,
\* are in ascending code-unit order.
C9_KeysSorted ==
    \A i \in 1..Len(files) :
        i < idx => /\ disk[files[i]] = TextOf(formatted[files[i]])
                   /\ KeyScan(formatted[files[i]], <<>>)

C9_Witness ==
    /\ Processed(1)
    /\ orig[1] = Write(Arr(<<Num(1), Arr(<<Obj(<<<<<<"1", "0">>, Num(1)>>, <<<<"2">>, Null>>>>),
                                           Arr(<<Null, Num(1)>>)>>)>>), TRUE, FALSE)
    /\ written[1] = 1

\* C10 (abort on the first parse failure): the files before the loop's
\* position were read once and formatted; a file that does not parse is read
\* and not written, ends the process with a fault, and leaves every later
\* file unread and unwritten.
C10_AbortOnParseFailure ==
    /\ \A i \in 1..Len(files) :
          /\ i < idx => wasRead[files[i]] = 1 /\ formatted[files[i]] # <<>>
          /\ i > idx => /\ wasRead[files[i]] = 0 /\ written[files[i]] = 0
                        /\ formatted[files[i]] = <<>>
                        /\ (pass = 1 => disk[files[i]] = orig[files[i]])
    /\ fmtPc = "threw" =>
          /\ nodeExit = 1
          /\ ~JSONparse(disk[files[idx]]).ok
          /\ wasRead[files[idx]] = 1 /\ written[files[idx]] = 0
          /\ (pass = 1 => disk[files[idx]] = orig[files[idx]])
    /\ fmtPc = "done" => nodeExit = 0 /\ idx = Len(files) + 1

C10_Witness ==
    /\ fmtPc = "threw" /\ pass = 1 /\ Len(files) = 2 /\ idx = 1
    /\ orig[1] \in Malformed /\ JSONparse(orig[2]).ok
    /\ wasRead[2] = 0 /\ disk[2] = orig[2]

-----------------------------------------------------------------------------
(* STATE MACHINE: package.sh and its inline archive validator              *)
(* Paths are character sequences: a and b are the scripts at the root of   *)
(* extension/, m is metadata.json, l is library, s is schemas, g the       *)
(* schema file.                                                            *)

FileA   == <<"a">>
FileB   == <<"b">>
FileM   == <<"m">>
DirL    == <<"l", "/">>
DirLD   == <<"l", "/", "d", "/">>
FileLX  == <<"l", "/", "x">>
DirS    == <<"s", "/">>
FileSG  == <<"s", "/", "g">>

\* extension/: the scripts at its root, whether metadata.json is there,
\* what library/ holds (a file x, a directory d), whether schemas/ holds
\* a .gschema.xml
Trees == [js : {{}, {FileA}, {FileA, FileB}}, meta : BOOLEAN,
          lib : {{}, {"x"}, {"x", "d"}}, xml : BOOLEAN]

\* .build-schema.json: its two arrays
SchemaFiles == <<FileA, FileB, FileLX, FileM, FileSG>>
SchemaDirs  == <<<<"l">>, <<"l", "/", "d">>, <<"s">>>>
Pick(universe, chosen) == SelectSeq(universe, LAMBDA e : e \in chosen)
Range(q) == {q[i] : i \in 1..Len(q)}
Schemas == {[exists |-> TRUE, allowed_files |-> Pick(SchemaFiles, fs),
             allowed_directories |-> Pick(SchemaDirs, ds)] :
               fs \in SUBSET Range(SchemaFiles), ds \in SUBSET Range(SchemaDirs)}
\* fs.existsSync(schemaPath) is false
NoSchema == [exists |-> FALSE, allowed_files |-> <<>>, allowed_directories |-> <<>>]

\* zip -r -q package ./* run in $TEMP_DIR, then unzip -Z1: the names in
\* the order of the glob, each directory before what it holds
ZipEntries(tree) ==
    SelectSeq(<<FileA, FileB, DirL, DirLD, FileLX, FileM, DirS, FileSG>>,
              LAMBDA e : \/ e \in tree.js
                         \/ e \in {DirL, DirS}
                         \/ e = DirLD /\ "d" \in tree.lib
                         \/ e = FileLX /\ "x" \in tree.lib
                         \/ e = FileM /\ tree.meta
                         \/ e = FileSG /\ tree.xml)

\* entry.endsWith('/')
EndsWithSlash(entry) == Len(entry) > 0 /\ entry[Len(entry)] = "/"
\* entry.replace(/\/$/, '')
StripSlash(entry) == IF EndsWithSlash(entry) THEN SubSeq(entry, 1, Len(entry) - 1) ELSE entry

Line(kind, tag, name) == [kind |-> kind, tag |-> tag, name |-> name]

RECURSIVE ScanNoDirs(_, _, _)
\* Scan gone wrong: directory entries are not checked
ScanNoDirs(list, allowedFiles, allowedDirs) ==
    IF list = <<>> THEN [unexpected |-> <<>>, foundFiles |-> <<>>]
    ELSE LET entry == list[1]
             rest  == ScanNoDirs(Tail(list), allowedFiles, allowedDirs)
         IN  IF EndsWithSlash(entry) THEN rest
             ELSE IF entry \notin allowedFiles
             THEN [rest EXCEPT !.unexpected = <<Line("unexpected", "File", entry)>> \o @]
             ELSE [rest EXCEPT !.foundFiles = <<entry>> \o @]

RECURSIVE ScanFirstOnly(_, _, _)
\* Scan gone wrong: the loop ends at the first unexpected entry
ScanFirstOnly(list, allowedFiles, allowedDirs) ==
    IF list = <<>> THEN [unexpected |-> <<>>, foundFiles |-> <<>>]
    ELSE LET entry == list[1]
             rest  == ScanFirstOnly(Tail(list), allowedFiles, allowedDirs)
             none  == [unexpected |-> <<>>, foundFiles |-> <<>>]
         IN  IF EndsWithSlash(entry)
             THEN LET dir == StripSlash(entry) IN
                  IF dir # <<>> /\ dir \notin allowedDirs
                  THEN [none EXCEPT !.unexpected = <<Line("unexpected", "Directory", dir)>>]
                  ELSE rest
             ELSE IF entry \notin allowedFiles
             THEN [none EXCEPT !.unexpected = <<Line("unexpected", "File", entry)>>]
             ELSE [rest EXCEPT !.foundFiles = <<entry>> \o @]

RECURSIVE Scan(_, _, _)
\* for (const entry of list) { ... }: the unexpected items and the found
\* files, each in the order of the listing
Scan(list, allowedFiles, allowedDirs) ==
    IF list = <<>> THEN [unexpected |-> <<>>, foundFiles |-> <<>>]
    ELSE LET entry == list[1]
             rest  == Scan(Tail(list), allowedFiles, allowedDirs)
         IN  IF EndsWithSlash(entry)
             THEN LET dir == StripSlash(entry) IN
                  IF dir # <<>> /\ dir \notin allowedDirs
                  THEN [rest EXCEPT !.unexpected = <<Line("unexpected", "Directory", dir)>> \o @]
                  ELSE rest
             ELSE IF entry \notin allowedFiles
             THEN [rest EXCEPT !.unexpected = <<Line("unexpected", "File", entry)>> \o @]
             ELSE [rest EXCEPT !.foundFiles = <<entry>> \o @]

\* [...allowedFiles].filter(f => !foundFiles.includes(f))
Missing(allowed_files, foundFiles) ==
    SelectSeq(allowed_files, LAMBDA f : f \notin Range(foundFiles))

\* The inline node script: what it writes to the error stream and to the
\* output stream, and its exit status
Validate(list, sch) ==
    IF ~sch.exists
    THEN [err |-> <<Line("schemaNotFound", "", <<>>)>>, out |-> <<>>, exit |-> 1]
    ELSE LET scan    == Scan(list, Range(sch.allowed_files), Range(sch.allowed_directories))
             missing == Missing(sch.allowed_files, scan.foundFiles)
             report  ==
                 (IF missing # <<>>
                  THEN <<Line("missingHeader", "", <<>>)>>
                       \o [i \in 1..Len(missing) |-> Line("missing", "", missing[i])]
                  ELSE <<>>)
                 \o (IF scan.unexpected # <<>>
                     THEN <<Line("unexpectedHeader", "", <<>>)>> \o scan.unexpected
                     ELSE <<>>)
         IN  IF missing # <<>> \/ scan.unexpected # <<>>
             THEN [err |-> report, out |-> <<>>, exit |-> 1]
             ELSE [err |-> <<>>, out |-> <<"validated">>, exit |-> 0]

PackageInit ==
    /\ extDir \in Trees
    /\ schema \in Schemas \cup {NoSchema}
    /\ pkgFile \in {"absent", "stale"}
    /\ shPc = "sync" /\ shExit = -1 /\ tempDir = FALSE
    /\ listing = <<>> /\ stderr = <<>> /\ stdout = <<>> /\ valExit = -1
    /\ fmtIdle /\ verIdle

\* set -e: a command that fails ends the script with its status; the EXIT
\* trap, once set, removes $TEMP_DIR
Abort(status) ==
    /\ shPc' = "exited" /\ shExit' = status /\ tempDir' = FALSE

\* A command of lines 10-39 that the model does not look into: it succeeds
\* or it fails
Command(at, next) ==
    /\ shPc = at
    /\ \E ok \in BOOLEAN : IF ok THEN shPc' = next /\ UNCHANGED <<shExit, tempDir>>
                           ELSE Abort(1)
    /\ UNCHANGED <<extDir, pkgFile, listing, schema, stderr, stdout, valExit, fmtVars, verVars>>

SyncVersion      == Command("sync", "format")
FormatJson       == Command("format", "lint")
Lint             == Command("lint", "lintStatus")
UpdateLintStatus == Command("lintStatus", "validateBuild")
ValidateBuild    == Command("validateBuild", "rm")

\* rm -f of the old package, mktemp -d, trap
RemoveOldPackage ==
    /\ shPc = "rm"
    /\ pkgFile' = "absent" /\ tempDir' = TRUE /\ shPc' = "copy"
    /\ UNCHANGED <<extDir, shExit, listing, schema, stderr, stdout, valExit, fmtVars, verVars>>

\* The cp commands: a glob that matches nothing, or no metadata.json, fails
CopyFiles ==
    /\ shPc = "copy"
    /\ IF extDir.js = {} \/ ~extDir.meta \/ extDir.lib = {}
       THEN Abort(1)
       ELSE shPc' = "zip" /\ UNCHANGED <<shExit, tempDir>>
    /\ UNCHANGED <<extDir, pkgFile, listing, schema, stderr, stdout, valExit, fmtVars, verVars>>

\* zip writes the package at $PROJECT_DIR/$PACKAGE_NAME
CreateZip ==
    /\ shPc = "zip"
    /\ pkgFile' = "built" /\ listing' = ZipEntries(extDir) /\ shPc' = "validate"
    /\ UNCHANGED <<extDir, shExit, tempDir, schema, stderr, stdout, valExit, fmtVars, verVars>>

\* The validator runs; its failure ends the script
ValidateZip ==
    /\ shPc = "validate"
    /\ LET res == Validate(listing, schema)
       IN  /\ stderr' = stderr \o res.err
           /\ stdout' = stdout \o res.out
           /\ valExit' = res.exit
           /\ IF res.exit # 0 THEN Abort(res.exit)
              ELSE shPc' = "ready" /\ UNCHANGED <<shExit, tempDir>>
    /\ UNCHANGED <<extDir, pkgFile, listing, schema, fmtVars, verVars>>

\* echo "Extension package ready!" and the lines after it
PackageReady ==
    /\ shPc = "ready"
    /\ stdout' = Append(stdout, "ready") /\ shPc' = "list"
    /\ UNCHANGED <<extDir, shExit, pkgFile, tempDir, listing, schema, stderr, valExit,
                   fmtVars, verVars>>

\* The listing of the package; the script ends and the EXIT trap runs
ListAndExit ==
    /\ shPc = "list"
    /\ stdout' = Append(stdout, "upload") /\ shPc' = "exited" /\ shExit' = 0
    /\ tempDir' = FALSE
    /\ UNCHANGED <<extDir, pkgFile, listing, schema, stderr, valExit, fmtVars, verVars>>

PackageNext ==
    \/ SyncVersion \/ FormatJson \/ Lint \/ UpdateLintStatus \/ ValidateBuild
    \/ RemoveOldPackage \/ CopyFiles \/ CreateZip \/ ValidateZip
    \/ PackageReady \/ ListAndExit

SpecPackage == PackageInit /\ [][PackageNext]_vars

-----------------------------------------------------------------------------
(* Properties of the archive validator and of the build driver *)

Validated == valExit # -1 /\ schema.exists
FileEntries == {listing[i] : i \in {j \in 1..Len(listing) : ~EndsWithSlash(listing[j])}}
DirEntries  == {listing[i] : i \in {j \in 1..Len(listing) : EndsWithSlash(listing[j])}}
InSchema(entry) ==
    IF EndsWithSlash(entry) THEN StripSlash(entry) \in Range(schema.allowed_directories)
    ELSE entry \in Range(schema.allowed_files)
Reported(line) == \E k \in 1..Len(stderr) : stderr[k] = line

\* C3 (schema completeness): the validator prints its confirmation and exits
\* with status 0 exactly when the file entries of the listing are the
\* allowed files and every directory entry, its trailing separator removed,
\* is an allowed directory.
C3_SchemaCompleteness ==
    Validated =>
        ((valExit = 0 /\ "validated" \in Range(stdout))
         <=> (/\ FileEntries = Range(schema.allowed_files)
              /\ \A d \in DirEntries : StripSlash(d) \in Range(schema.allowed_directories)))

C3_Witness ==
    /\ Validated /\ valExit = 0
    /\ FileLX \in FileEntries /\ DirLD \in DirEntries /\ Len(listing) >= 6

\* C4 (report completeness): a failed validation reports every allowed file
\* the archive lacks and every entry of the archive the schema does not
\* allow, the missing items before the unexpected ones, and nothing else.
C4_ReportCompleteness ==
    (Validated /\ valExit = 1) =>
        /\ \A f \in Range(schema.allowed_files) :
              f \notin FileEntries <=> Reported(Line("missing", "", f))
        /\ \A i \in 1..Len(listing) :
              ~InSchema(listing[i])
              <=> Reported(Line("unexpected",
                                IF EndsWithSlash(listing[i]) THEN "Directory" ELSE "File",
                                StripSlash(listing[i])))
        /\ \A k1, k2 \in 1..Len(stderr) :
              (stderr[k1].kind = "missing" /\ stderr[k2].kind = "unexpected") => k1 < k2
        /\ stderr # <<>>

C4_Witness ==
    /\ Validated /\ valExit = 1
    /\ Cardinality({k \in 1..Len(stderr) : stderr[k].kind = "missing"}) >= 2
    /\ \E k \in 1..Len(stderr) : stderr[k].kind = "unexpected" /\ stderr[k].tag = "File"
    /\ \E k \in 1..Len(stderr) : stderr[k].kind = "unexpected" /\ stderr[k].tag = "Directory"
    /\ Cardinality({k \in 1..Len(stderr) : stderr[k].kind = "unexpected"}) >= 3

\* C6 (a schema mismatch is fatal), as claimed: a run whose validator found
\* a missing or an unexpected entry ends with a non-zero status, never says
\* the package is ready, and leaves no package at the output location.
C6_MismatchFatal ==
    (shPc = "exited" /\ Validated /\ valExit = 1) =>
        /\ shExit # 0
        /\ "ready" \notin Range(stdout)
        /\ pkgFile = "absent"

-----------------------------------------------------------------------------
(* STATE MACHINE: the published-version script                             *)

MaxVersion   == 2
MaxRedirects == 2

\* The publishedVersion given to updateReadme: null, NaN (what parseInt
\* gives for a text that is no number), or a number
NullVersion == [kind |-> "null", n |-> 0]
NaNVersion  == [kind |-> "NaN", n |-> 0]
Version(n)  == [kind |-> "number", n |-> n]

BadgeNA    == <<"N%2FA">>
BadgeV(n)  == <<"v">> \o ToDigits(n)

\* .github/README.md: it cannot be read; it holds the EGO-VERSION markers;
\* it holds them and cannot be written; it holds only the "Status: Live"
\* line; it holds neither
Readmes == {"unreadable", "markers", "readonly", "statusLine", "neither"}

\* What a page holds: no data-versions attribute; one that is not JSON;
\* the JSON {}; a version that is no number; a version
PageBodies == {"noVersionData", "badJson", "emptyVersions", "nonNumeric", "version"}
\* What the extension-info response holds
InfoBodies == {"badJson", "nonNumeric", "version"}

VersionInit ==
    /\ pkgJson \in {[readable |-> FALSE, major |-> 0]}
                   \cup {[readable |-> TRUE, major |-> n] : n \in 1..MaxVersion}
    /\ readme \in Readmes
    /\ verPc = "start" /\ githubVersion = 0 /\ reqUrl = "none" /\ redirects = 0
    /\ published = "unset" /\ gnomeBadge = <<>> /\ lookup = "pending" /\ verExit = -1
    /\ fmtIdle /\ shIdle

\* HasPublished gone wrong: only null counts as no version
HasPublishedNotNull(publishedVersion) == publishedVersion.kind # "null"

\* Number.isFinite(publishedVersion)
HasPublished(publishedVersion) == publishedVersion.kind = "number"

\* updateReadme(githubVersionValue, publishedVersion) and what follows every
\* call of it: process.exit(0), or the end of the script (status 0 too). A
\* fault in reading or writing the README exits with status 1 before that.
updateReadme(githubVersionValue, publishedVersion) ==
    LET hasPublished == HasPublished(publishedVersion)
        badge        == IF hasPublished THEN BadgeV(publishedVersion.n) ELSE BadgeNA
    IN  /\ verPc' = "exited" /\ reqUrl' = "none"
        /\ IF readme = "unreadable"
           THEN verExit' = 1 /\ UNCHANGED <<published, gnomeBadge>>
           ELSE /\ published' = IF hasPublished THEN "version" ELSE "NA"
                /\ IF readme = "readonly"
                   THEN verExit' = 1 /\ UNCHANGED gnomeBadge
                   ELSE /\ verExit' = 0
                        /\ gnomeBadge' = IF readme \in {"markers", "statusLine"}
                                         THEN badge ELSE gnomeBadge

\* Lines 14-22 and the call of fetchHtml
ReadPackageJson ==
    /\ verPc = "start"
    /\ IF pkgJson.readable
       THEN /\ githubVersion' = pkgJson.major /\ verPc' = "request" /\ reqUrl' = "page"
            /\ UNCHANGED verExit
       ELSE /\ verPc' = "exited" /\ verExit' = 1 /\ UNCHANGED <<githubVersion, reqUrl>>
    /\ UNCHANGED <<pkgJson, readme, redirects, published, gnomeBadge, lookup, fmtVars, shVars>>

\* request: the 'error' event of the request in flight
RequestError ==
    /\ verPc = "request"
    /\ lookup' = "networkError"
    /\ updateReadme(githubVersion, NullVersion)
    /\ UNCHANGED <<pkgJson, githubVersion, readme, redirects, fmtVars, shVars>>

\* request: a redirect with a location is followed
RequestRedirect ==
    /\ verPc = "request" /\ redirects < MaxRedirects
    /\ redirects' = redirects + 1
    /\ UNCHANGED <<verPc, pkgJson, githubVersion, readme, reqUrl, published, gnomeBadge,
                   lookup, verExit, fmtVars, shVars>>

\* The callback of fetchHtml, once the page has been received
PageResponse ==
    /\ verPc = "request" /\ reqUrl = "page"
    /\ \E body \in PageBodies, n \in 1..MaxVersion :
          CASE body = "noVersionData" ->
                  \* extractExtensionId finds the id in EGO_URL: fetchExtensionInfo
                  /\ reqUrl' = "info" /\ redirects' = 0
                  /\ UNCHANGED <<verPc, published, gnomeBadge, lookup, verExit>>
            [] body \in {"badJson", "emptyVersions"} ->
                  /\ lookup' = IF body = "badJson" THEN "pageBadJson" ELSE "pageEmpty"
                  /\ updateReadme(githubVersion, NullVersion)
                  /\ UNCHANGED redirects
            [] body = "nonNumeric" ->
                  /\ lookup' = "pageNonNumeric"
                  /\ updateReadme(githubVersion, NaNVersion)
                  /\ UNCHANGED redirects
            [] body = "version" ->
                  /\ lookup' = "found"
                  /\ updateReadme(githubVersion, Version(n))
                  /\ UNCHANGED redirects
    /\ UNCHANGED <<pkgJson, githubVersion, readme, fmtVars, shVars>>

\* The callback fetchExtensionInfo gives to request
InfoResponse ==
    /\ verPc = "request" /\ reqUrl = "info"
    /\ \E body \in InfoBodies, n \in 1..MaxVersion :
          IF body = "version"
          THEN /\ lookup' = "found"
               /\ updateReadme(githubVersion, Version(n))
          ELSE /\ lookup' = IF body = "badJson" THEN "infoBadJson" ELSE "infoNonNumeric"
               /\ updateReadme(githubVersion, NullVersion)
    /\ UNCHANGED <<pkgJson, githubVersion, readme, redirects, fmtVars, shVars>>

VersionNext ==
    \/ ReadPackageJson \/ RequestError \/ RequestRedirect \/ PageResponse \/ InfoResponse

SpecVersion == VersionInit /\ [][VersionNext]_vars

-----------------------------------------------------------------------------
(* Properties of the published-version script *)

LookupFailed == lookup \notin {"pending", "found"}

-----------------------------------------------------------------------------
(* The three scripts together: each behaviour is a run of one of them. *)

Init == FormatInit \/ PackageInit \/ VersionInit
Next == FormatNext \/ PackageNext \/ VersionNext
Spec == Init /\ [][Next]_vars

=============================================================================
